---- MODULE Spec2Model ----
(***************************************************************************)
(* Model of minimal-fw-mem.py: a websocket server that accumulates the     *)
(* binary frames of a connection in client.abuf and, on a text frame,      *)
(* joins them, converts them to a float signal, calls the whisper engine,  *)
(* sanitizes the transcript, sends one JSON message and closes.            *)
(*                                                                         *)
(* A connection's frames are delivered one after another by the websocket  *)
(* library (on_message is not re-entered on the same client); handlers of  *)
(* different connections run in different threads, so the handler of a     *)
(* text frame is split at its blocking calls: model.transcribe,            *)
(* client.send and client.close.  pc[c] is the position of the handler of  *)
(* connection c.                                                           *)
(*                                                                         *)
(* Text is modelled as a sequence of one-character strings, audio as a     *)
(* sequence of byte values 0..255, a float sample as num/den.              *)
(***************************************************************************)
EXTENDS Integers, Sequences, FiniteSets, TLC

\* ------------------------------------------------------------------ bounds
\* the connections (client objects) of one run
Conns == {"c1", "c2"}

\* frames delivered in one run, over all connections
MaxFrames == 3

\* the same in the runs checked for progress
MaxLiveFrames == 2

\* the binary frames a client may send (zero length, odd length, one and two samples)
Chunks == { <<>>, <<1>>, <<0, 128>>, <<0, 0, 255, 127>> }

\* the text frames a client may send
Texts == { "EOS", "" }

\* what the engine may return: lists of segment texts (plain; an annotation
\* and quotes; a backslash before a quote)
EngineResults ==
  { << <<"t", "e", "s", "t">> >>,
    << <<" ", "[", "a", "]">>, <<"\"", "b", "\"">> >>,
    << <<"\\", "\"">> >> }

\* --------------------------------------------------------------- variables
VARIABLES
  connected,    \* connected[c]: on_connect has run for client c
  abuf,         \* client.abuf: the list of binary segments
  closed,       \* client.close() has run on c
  pc,           \* position of on_message(text) on c: idle, engine, send, close
  audio_np,     \* local audio_np of the running handler
  msg,          \* local msg of the running handler
  frames,       \* every frame delivered on c, in arrival order
  engineCalls,  \* the signals model.transcribe was called with, for c
  engineReturns,\* how many of these calls returned
  sendCalls,    \* how many times client.send was called on c
  sent,         \* the messages client.send delivered on c
  raised,       \* exception that left the last on_message call on c
  caught,       \* the calls whose WebSocketError on_message caught and logged
  budget,       \* frames the clients may still send in this run
  in_rr,        \* the engine's segment texts, input of the sanitizing steps
  in_rules,     \* the list of corrections configured for these steps
  cur_m,        \* the transcript m as the steps rewrite it
  san_step,     \* the sanitizing step that runs next, "off" when none runs
  in_raw,       \* audio_data, input of the conversion to a signal
  out_np        \* its result: whether it ran, what it raised, the signal

\* the state of one run of the sanitizing steps or of the conversion alone
pure == << in_rr, in_rules, cur_m, san_step, in_raw, out_np >>

vars == << connected, abuf, closed, pc, audio_np, msg, frames, engineCalls,
           engineReturns, sendCalls, sent, raised, caught, budget, pure >>

\* ----------------------------------------------------------- byte helpers
RECURSIVE Join(_)
\* b"".join(list): the segments concatenated in list order
Join(list) ==
  IF list = <<>> THEN <<>> ELSE Head(list) \o Join(Tail(list))

\* variant: the two bytes read as an unsigned number
Int16LE_unsigned(lo, hi) == lo + 256 * hi

\* one little-endian signed 16-bit sample
Int16LE(lo, hi) ==
  LET u == lo + 256 * hi IN IF u >= 32768 THEN u - 65536 ELSE u

\* np.frombuffer rejects a buffer that is not a whole number of int16
FrombufferRaises(raw) == Len(raw) % 2 = 1

\* np.frombuffer(raw, int16).astype(float32) / 32768.0
Normalize(raw) ==
  [i \in 1..(Len(raw) \div 2) |->
     [num |-> Int16LE(raw[2 * i - 1], raw[2 * i]), den |-> 32768]]

\* ------------------------------------------------------------ text helpers
RECURSIVE JoinSpace(_)
\* " ".join(rr)
JoinSpace(rr) ==
  IF rr = <<>> THEN <<>>
  ELSE IF Len(rr) = 1 THEN rr[1]
  ELSE rr[1] \o <<" ">> \o JoinSpace(Tail(rr))

IsSpace(ch) == ch \in {" ", "\n", "\t"}

RECURSIVE LStrip(_)
LStrip(s) ==
  IF s # <<>> /\ IsSpace(s[1]) THEN LStrip(Tail(s)) ELSE s

RECURSIVE RStrip(_)
RStrip(s) ==
  IF s # <<>> /\ IsSpace(s[Len(s)]) THEN RStrip(SubSeq(s, 1, Len(s) - 1)) ELSE s

\* variant: only the leading whitespace is removed
Strip_left(s) == LStrip(s)

\* str.strip()
Strip(s) == RStrip(LStrip(s))

\* index of the first newline at or after i, Len(s)+1 when there is none
LineEnd(s, i) ==
  LET nl == { k \in i..Len(s) : s[k] = "\n" }
  IN IF nl = {} THEN Len(s) + 1 ELSE CHOOSE k \in nl : \A j \in nl : k <= j

\* variant: the first "]" after i, as a non-greedy pattern would take
LastClose_first(s, i) ==
  LET cl == { j \in (i + 1)..(LineEnd(s, i) - 1) : s[j] = "]" }
  IN IF cl = {} THEN 0 ELSE CHOOSE j \in cl : \A k \in cl : j <= k

\* index of the last "]" after i on the line of i, 0 when there is none
LastClose(s, i) ==
  LET cl == { j \in (i + 1)..(LineEnd(s, i) - 1) : s[j] = "]" }
  IN IF cl = {} THEN 0 ELSE CHOOSE j \in cl : \A k \in cl : k <= j

RECURSIVE SubBracketsFrom(_, _)
SubBracketsFrom(s, i) ==
  IF i > Len(s) THEN <<>>
  ELSE IF s[i] = "[" /\ LastClose(s, i) # 0
       THEN SubBracketsFrom(s, LastClose(s, i) + 1)
       ELSE <<s[i]>> \o SubBracketsFrom(s, i + 1)

\* re.sub(r"\[.*\]", "", m): greedy, "." does not match a newline
SubBrackets(s) == SubBracketsFrom(s, 1)

RECURSIVE EscapeQuotes(_)
\* re.sub(r'"', '\\"', m)
EscapeQuotes(s) ==
  IF s = <<>> THEN <<>>
  ELSE (IF s[1] = "\"" THEN <<"\\", "\"">> ELSE <<s[1]>>) \o EscapeQuotes(Tail(s))

\* the configured (pattern, replacement) pairs: none
corrections == << >>

\* s has the literal a at index i
MatchAt(s, a, i) ==
  /\ i + Len(a) - 1 <= Len(s)
  /\ \A k \in 1..Len(a) : s[i + k - 1] = a[k]

RECURSIVE ReplaceFrom(_, _, _, _)
ReplaceFrom(s, a, b, i) ==
  IF i > Len(s) THEN <<>>
  ELSE IF a # <<>> /\ MatchAt(s, a, i)
       THEN b \o ReplaceFrom(s, a, b, i + Len(a))
       ELSE <<s[i]>> \o ReplaceFrom(s, a, b, i + 1)

\* re.sub(a, b, m) for a pattern of literal characters
ReSub(a, b, s) == ReplaceFrom(s, a, b, 1)

RECURSIVE ApplyCorrections_reversed(_, _)
\* variant: the rules are applied from the last one to the first
ApplyCorrections_reversed(rules, s) ==
  IF rules = <<>> THEN s
  ELSE ReSub(rules[1][1], rules[1][2], ApplyCorrections_reversed(Tail(rules), s))

RECURSIVE ApplyCorrections(_, _)
\* for a, b in corrections: m = re.sub(a, b, m)
ApplyCorrections(rules, s) ==
  IF rules = <<>> THEN s
  ELSE ApplyCorrections(Tail(rules), ReSub(rules[1][1], rules[1][2], s))

\* the sanitizing steps of on_message, in program order
SanitizeWith(rules, rr) ==
  ApplyCorrections(rules, EscapeQuotes(SubBrackets(Strip(JoinSpace(rr)))))

\* the transcript on_message builds from the engine's segments
Sanitize(rr) == SanitizeWith(corrections, rr)

\* the literal text of the f-string around the transcript
MsgPrefix ==
  << "{\"status\": 0, \"segment\": 0, \"result\": {\"hypotheses\": [{\"transcript\": \"" >>

\* the id every response carries
SessionId == "1aacc69d-3674-438a-b3c5-fc0ed51769a5"

MsgSuffix ==
  << "\"", "}], \"final\": true}, \"id\": \"", SessionId, "\"}" >>

\* msg = f'{{"status": 0, ... "{m}" ...}}'
BuildMsg(m) == MsgPrefix \o m \o MsgSuffix

\* ------------------------------------------------------------------- state
\* no client has connected yet
NoSession ==
  /\ connected = [c \in Conns |-> FALSE]
  /\ abuf = [c \in Conns |-> <<>>]
  /\ closed = [c \in Conns |-> FALSE]
  /\ pc = [c \in Conns |-> "idle"]
  /\ audio_np = [c \in Conns |-> <<>>]
  /\ msg = [c \in Conns |-> <<>>]
  /\ frames = [c \in Conns |-> <<>>]
  /\ engineCalls = [c \in Conns |-> <<>>]
  /\ engineReturns = [c \in Conns |-> 0]
  /\ sendCalls = [c \in Conns |-> 0]
  /\ sent = [c \in Conns |-> <<>>]
  /\ raised = [c \in Conns |-> "none"]
  /\ caught = [c \in Conns |-> <<>>]

\* the conversion has not run
NotConverted == [done |-> FALSE, raised |-> "none", signal |-> <<>>]

\* no run of the sanitizing steps or of the conversion alone
NoPure ==
  /\ in_rr = <<>>
  /\ in_rules = <<>>
  /\ cur_m = <<>>
  /\ san_step = "off"
  /\ in_raw = <<>>
  /\ out_np = NotConverted

Init == NoSession /\ NoPure /\ budget = MaxFrames

LiveInit == NoSession /\ NoPure /\ budget = MaxLiveFrames

\* the library hands a frame to on_message only between two handler runs
CanDeliver(c) ==
  /\ connected[c]
  /\ pc[c] = "idle"
  /\ budget > 0

\* the binary frames among a connection's frames, in arrival order
BinaryOf(fs) == SelectSeq(fs, LAMBDA f : f.kind = "bytes")

\* the session state of the specification, read off the code's state
SessionState(c) ==
  IF closed[c] THEN "CLOSED"
  ELSE IF pc[c] # "idle" THEN "FINALIZING"
  ELSE "AWAITING_AUDIO"

\* ----------------------------------------------------------------- actions
\* on_connect(client): client.abuf = []
on_connect(c) ==
  /\ ~connected[c]
  /\ connected' = [connected EXCEPT ![c] = TRUE]
  /\ abuf' = [abuf EXCEPT ![c] = <<>>]
  /\ UNCHANGED << closed, pc, audio_np, msg, frames, engineCalls,
                  engineReturns, sendCalls, sent, raised, caught, budget, pure >>

\* the frames the library can hand to on_message
Messages ==
  [kind : {"bytes"}, val : Chunks] \cup [kind : {"str"}, val : Texts]

\* variant: only the literal "EOS" ends the stream
IsEOS_literal(message) == message.kind = "str" /\ message.val = "EOS"

\* variant: an empty binary message also ends the stream
IsEOS_empty(message) ==
  message.kind = "str" \/ (message.kind = "bytes" /\ message.val = <<>>)

\* isinstance(message, str)
IsEOS(message) == message.kind = "str"

\* variant: the segment is inserted at the front of the list
abuf_append_front(buf, c, message) == [buf EXCEPT ![c] = <<message.val>> \o buf[c]]

\* variant: one list shared by every client
abuf_append_shared(buf, c, message) == [d \in Conns |-> Append(buf[d], message.val)]

\* variant: an empty segment is not stored
abuf_append_nonempty(buf, c, message) ==
  IF message.val = <<>> THEN buf ELSE [buf EXCEPT ![c] = Append(buf[c], message.val)]

\* variant: a segment that arrives on a closed connection is dropped
abuf_append_open(buf, c, message) ==
  IF closed[c] THEN buf ELSE [buf EXCEPT ![c] = Append(buf[c], message.val)]

\* client.abuf.append(message)
abuf_append(buf, c, message) == [buf EXCEPT ![c] = Append(buf[c], message.val)]

\* variant: the list is emptied once it has been joined
abuf_after_join_clear(buf, c) == [buf EXCEPT ![c] = <<>>]

\* audio_data = b"".join(client.abuf) reads client.abuf and leaves it as it is
abuf_after_join(buf, c) == buf

\* on_message(message, client) up to its first blocking call: a str joins
\* the buffer and converts it, anything else is appended to the buffer
on_message(c, message) ==
  LET audio_data == Join(abuf[c])
  IN /\ CanDeliver(c)
     /\ frames' = [frames EXCEPT ![c] = Append(@, message)]
     /\ budget' = budget - 1
     /\ IF IsEOS(message)
        THEN /\ abuf' = abuf_after_join(abuf, c)
             /\ IF FrombufferRaises(audio_data)
                THEN /\ raised' = [raised EXCEPT ![c] = "ValueError"]
                     /\ UNCHANGED << pc, audio_np >>
                ELSE /\ raised' = [raised EXCEPT ![c] = "none"]
                     /\ audio_np' = [audio_np EXCEPT ![c] = Normalize(audio_data)]
                     /\ pc' = [pc EXCEPT ![c] = "engine"]
        ELSE /\ abuf' = abuf_append(abuf, c, message)
             /\ raised' = [raised EXCEPT ![c] = "none"]
             /\ UNCHANGED << pc, audio_np >>
     /\ UNCHANGED << connected, closed, msg, engineCalls, engineReturns,
                     sendCalls, sent, caught, pure >>

\* variant: an error of the engine is swallowed and an empty transcript sent
Transcribe_swallow(c) ==
  /\ pc[c] = "engine"
  /\ engineCalls' = [engineCalls EXCEPT ![c] = Append(@, audio_np[c])]
  /\ \/ \E rr \in EngineResults :
          /\ engineReturns' = [engineReturns EXCEPT ![c] = @ + 1]
          /\ msg' = [msg EXCEPT ![c] = BuildMsg(Sanitize(rr))]
     \/ /\ msg' = [msg EXCEPT ![c] = BuildMsg(<<>>)]
        /\ UNCHANGED engineReturns
  /\ pc' = [pc EXCEPT ![c] = "send"]
  /\ UNCHANGED << connected, abuf, closed, audio_np, frames, sendCalls,
                  sent, raised, caught, budget, pure >>

\* segments, _ = model.transcribe(audio_np), the sanitizing steps, the f-string
Transcribe(c) ==
  /\ pc[c] = "engine"
  /\ engineCalls' = [engineCalls EXCEPT ![c] = Append(@, audio_np[c])]
  /\ \/ \E rr \in EngineResults :
          /\ engineReturns' = [engineReturns EXCEPT ![c] = @ + 1]
          /\ msg' = [msg EXCEPT ![c] = BuildMsg(Sanitize(rr))]
          /\ pc' = [pc EXCEPT ![c] = "send"]
          /\ UNCHANGED raised
     \/ /\ raised' = [raised EXCEPT ![c] = "EngineError"]
        /\ pc' = [pc EXCEPT ![c] = "idle"]
        /\ UNCHANGED << engineReturns, msg >>
  /\ UNCHANGED << connected, abuf, closed, audio_np, frames, sendCalls,
                  sent, caught, budget, pure >>

\* variant: the handler returns after client.send without closing
Send_noclose(c) ==
  /\ pc[c] = "send"
  /\ sendCalls' = [sendCalls EXCEPT ![c] = @ + 1]
  /\ \/ /\ ~closed[c]
        /\ sent' = [sent EXCEPT ![c] = Append(@, msg[c])]
        /\ UNCHANGED caught
     \/ /\ caught' = [caught EXCEPT ![c] = Append(@, "send")]
        /\ UNCHANGED sent
  /\ pc' = [pc EXCEPT ![c] = "idle"]
  /\ UNCHANGED << connected, abuf, closed, audio_np, msg, frames,
                  engineCalls, engineReturns, raised, budget, pure >>

\* client.send(msg): delivers msg, or raises WebSocketError, which the
\* except clause logs; nothing can be sent on a closed connection
Send(c) ==
  /\ pc[c] = "send"
  /\ sendCalls' = [sendCalls EXCEPT ![c] = @ + 1]
  /\ \/ /\ ~closed[c]
        /\ sent' = [sent EXCEPT ![c] = Append(@, msg[c])]
        /\ pc' = [pc EXCEPT ![c] = "close"]
        /\ UNCHANGED caught
     \/ /\ caught' = [caught EXCEPT ![c] = Append(@, "send")]
        /\ pc' = [pc EXCEPT ![c] = "idle"]
        /\ UNCHANGED sent
  /\ UNCHANGED << connected, abuf, closed, audio_np, msg, frames,
                  engineCalls, engineReturns, raised, budget, pure >>

\* variant: the close reaches every connection of the server
Close_all(c) ==
  /\ pc[c] = "close"
  /\ closed' = [d \in Conns |-> TRUE]
  /\ pc' = [pc EXCEPT ![c] = "idle"]
  /\ UNCHANGED << connected, abuf, audio_np, msg, frames, engineCalls,
                  engineReturns, sendCalls, sent, raised, caught, budget, pure >>

\* variant: client.close() returns and leaves the connection open
Close_noop(c) ==
  /\ pc[c] = "close"
  /\ pc' = [pc EXCEPT ![c] = "idle"]
  /\ UNCHANGED << connected, abuf, closed, audio_np, msg, frames, engineCalls,
                  engineReturns, sendCalls, sent, raised, caught, budget, pure >>

\* client.close(): the connection is closed, also when the closing frame
\* cannot be written and WebSocketError is raised and logged
Close(c) ==
  /\ pc[c] = "close"
  /\ closed' = [closed EXCEPT ![c] = TRUE]
  /\ pc' = [pc EXCEPT ![c] = "idle"]
  /\ \/ UNCHANGED caught
     \/ caught' = [caught EXCEPT ![c] = Append(@, "close")]
  /\ UNCHANGED << connected, abuf, audio_np, msg, frames, engineCalls,
                  engineReturns, sendCalls, sent, raised, budget, pure >>

Next ==
  \/ \E c \in Conns : on_connect(c)
  \/ \E c \in Conns : \E message \in Messages : on_message(c, message)
  \/ \E c \in Conns : Transcribe(c)
  \/ \E c \in Conns : Send(c)
  \/ \E c \in Conns : Close(c)

Spec == Init /\ [][Next]_vars

\* a handler that has started runs on: its thread is scheduled
LiveSpec ==
  /\ LiveInit
  /\ [][Next]_vars
  /\ \A c \in Conns : WF_vars(Transcribe(c)) /\ WF_vars(Send(c)) /\ WF_vars(Close(c))

\* ------------------------------------------- the steps of on_message alone
\* segments the engine returns in one of these runs
MaxSegs == 2

\* bytes joined from the buffer in one of these runs
MaxBytes == 4

\* segment texts: plain, bracketed annotations, surrounding blanks, quotes,
\* a backslash before a quote
SegTexts ==
  { <<"t", "e", "s", "t">>,
    <<"[", "n", "o", "i", "s", "e", "]", " ", "h", "e", "l", "l", "o", " ", "[", "m", "u", "s", "i", "c", "]", " ", "w", "o", "r", "l", "d">>,
    <<"I", " ", "s", "a", "w", " ", "C", "o", "n", "n", "e", "r", " ", "t", "o", "d", "a", "y">>,
    <<" ", "a">>,
    <<"b", " ">>,
    <<"s", "a", "y", " ", "\"", "h", "i", "\"">>,
    <<"\\", "\"">>,
    <<"[", "a", "]">> }

\* lists of corrections: none, one rule, two rules in both orders, a rule
\* on the escaped quote
RuleLists ==
  { <<>>,
    <<<<<<"C", "o", "n", "n", "e", "r">>, <<"C", "o", "n", "o", "r">>>>>>,
    <<<<<<"a">>, <<"b">>>>, <<<<"b">>, <<"c">>>>>>,
    <<<<<<"b">>, <<"c">>>>, <<<<"a">>, <<"b">>>>>>,
    <<<<<<"\\", "\"">>, <<"'">>>>>> }

\* byte values: the ends and the middle of the range
ByteVals == {0, 1, 127, 128, 255}

\* the lists of at most n elements of S
SeqsUpTo(S, n) == UNION { [1..k -> S] : k \in 0..n }

\* the engine has returned segments and the sanitizing steps are to run
SanInit ==
  /\ in_rr \in SeqsUpTo(SegTexts, MaxSegs)
  /\ in_rules \in RuleLists
  /\ cur_m = <<>>
  /\ san_step = "join"
  /\ in_raw = <<>>
  /\ out_np = NotConverted

\* the buffer has been joined and is to be converted
NormInit ==
  /\ in_rr = <<>>
  /\ in_rules = <<>>
  /\ cur_m = <<>>
  /\ san_step = "off"
  /\ in_raw \in SeqsUpTo(ByteVals, MaxBytes)
  /\ out_np = NotConverted

PureInit == NoSession /\ budget = 0 /\ (SanInit \/ NormInit)

\* one sanitizing step: m is rewritten and the next step is due
SanStep(from, to, result) ==
  /\ san_step = from
  /\ cur_m' = result
  /\ san_step' = to
  /\ UNCHANGED << connected, abuf, closed, pc, audio_np, msg, frames,
                  engineCalls, engineReturns, sendCalls, sent, raised, caught,
                  budget, in_rr, in_rules, in_raw, out_np >>

\* rr.append(segment.text) for each segment; m = " ".join(rr)
DoJoin == SanStep("join", "strip", JoinSpace(in_rr))

\* m = m.strip()
DoStrip == SanStep("strip", "brackets", Strip(cur_m))

\* m = re.sub(r"\[.*\]", "", m)
DoBrackets == SanStep("brackets", "quotes", SubBrackets(cur_m))

\* m = re.sub(r'"', '\\"', m)
DoQuotes == SanStep("quotes", "corrections", EscapeQuotes(cur_m))

\* for a, b in corrections: m = re.sub(a, b, m)
DoCorrections == SanStep("corrections", "done", ApplyCorrections(in_rules, cur_m))

\* audio_np = np.frombuffer(audio_data, dtype=np.int16).astype(np.float32) / 32768.0
DoNormalize ==
  /\ san_step = "off"
  /\ ~out_np.done
  /\ out_np' = IF FrombufferRaises(in_raw)
               THEN [done |-> TRUE, raised |-> "ValueError", signal |-> <<>>]
               ELSE [done |-> TRUE, raised |-> "none", signal |-> Normalize(in_raw)]
  /\ UNCHANGED << connected, abuf, closed, pc, audio_np, msg, frames,
                  engineCalls, engineReturns, sendCalls, sent, raised, caught,
                  budget, in_rr, in_rules, cur_m, san_step, in_raw >>

PureNext ==
  \/ DoJoin
  \/ DoStrip
  \/ DoBrackets
  \/ DoQuotes
  \/ DoCorrections
  \/ DoNormalize

PureSpec == PureInit /\ [][PureNext]_vars

\* ------------------------------------------------------------ properties
\* the segments of the binary frames in a frame list, in arrival order
ValsOf(fs) == [i \in 1..Len(BinaryOf(fs)) |-> BinaryOf(fs)[i].val]

\* the bytes of the binary frames delivered on c, in arrival order
BytesOf(c) == Join(ValsOf(frames[c]))

\* c received binary frames only and then one text frame, B even
OneTextSession(c) ==
  /\ frames[c] # <<>>
  /\ frames[c][Len(frames[c])].kind = "str"
  /\ \A i \in 1..(Len(frames[c]) - 1) : frames[c][i].kind = "bytes"
  /\ Len(BytesOf(c)) % 2 = 0

\* C1: a session that received N binary frames of B bytes in all (B even)
\* and then one text frame has had the engine invoked exactly once, with
\* B/2 samples that are the frames' bytes in arrival order, and exactly one
\* response is sent on it (none only when the engine call or the send raised)
C1_DrainExact ==
  \A c \in Conns :
    (OneTextSession(c) /\ pc[c] # "engine") =>
      /\ Len(engineCalls[c]) = 1
      /\ Len(engineCalls[c][1]) * 2 = Len(BytesOf(c))
      /\ \A i \in 1..Len(engineCalls[c][1]) :
           engineCalls[c][1][i] =
             [num |-> Int16LE(BytesOf(c)[2 * i - 1], BytesOf(c)[2 * i]), den |-> 32768]
      /\ Len(sent[c]) <= 1
      /\ (pc[c] = "idle" /\ raised[c] = "none" /\ caught[c] \in {<<>>, <<"close">>})
           => Len(sent[c]) = 1

\* two binary frames with four bytes in all, a text frame, one response
C1_Witness ==
  \E c \in Conns :
    /\ OneTextSession(c)
    /\ Len(frames[c]) = 3
    /\ Len(BytesOf(c)) = 4
    /\ frames[c][1].val # <<>>
    /\ pc[c] = "idle"
    /\ Len(engineCalls[c]) = 1
    /\ Len(sent[c]) = 1

\* C2: at most one response is sent on a connection, whatever frames are
\* delivered on it, text frames after the first one included
C2_AtMostOneResponse == \A c \in Conns : Len(sent[c]) <= 1

\* a second text frame was handled after the response: send was called again
C2_Witness ==
  \E c \in Conns :
    /\ Len(sent[c]) = 1
    /\ sendCalls[c] >= 2
    /\ closed[c]
    /\ pc[c] = "idle"

\* the signals that can be made of the binary frames delivered on c
OwnSignals(c) ==
  { Normalize(Join(SubSeq(ValsOf(frames[c]), 1, k))) : k \in 0..Len(ValsOf(frames[c])) }

\* C3: the audio handed to the engine for a session is made of the binary
\* frames delivered on that session's connection only, however the
\* callbacks of two sessions interleave
C3_Isolation ==
  \A c \in Conns :
    /\ \A i \in 1..Len(engineCalls[c]) : engineCalls[c][i] \in OwnSignals(c)
    /\ pc[c] = "engine" => audio_np[c] = Normalize(BytesOf(c))

\* two sessions with different audio are finalized at overlapping times:
\* d has joined its buffer while c, which has audio, is between engine and send
C3_Witness ==
  \E c, d \in Conns :
    /\ c # d
    /\ pc[c] = "send"
    /\ pc[d] = "engine"
    /\ engineCalls[c] # <<>>
    /\ engineCalls[c][1] # <<>>
    /\ audio_np[d] # audio_np[c]
    /\ BytesOf(c) # BytesOf(d)

\* the last frame delivered on c is a text frame
LastIsText(c) == frames[c] # <<>> /\ frames[c][Len(frames[c])].kind = "str"

\* the text frames delivered on c
TextCount(c) == Len(frames[c]) - Len(BinaryOf(frames[c]))

\* C4: a WebSocketError raised by client.send is caught by on_message, the
\* send is not repeated, and the handler closes the connection
C4_SendErrorCloses ==
  \A c \in Conns :
    (pc[c] = "idle" /\ caught[c] # <<>> /\ caught[c][Len(caught[c])] = "send") =>
      /\ raised[c] = "none"
      /\ sendCalls[c] <= TextCount(c)
      /\ closed[c]

\* C5: with an odd number B of accumulated bytes at the text frame no error
\* is raised and the engine is invoked with floor(B/2) samples
C5_OddTruncated ==
  \A c \in Conns :
    (LastIsText(c) /\ TextCount(c) = 1 /\ Len(BytesOf(c)) % 2 = 1) =>
      /\ raised[c] # "ValueError"
      /\ pc[c] # "engine" =>
           /\ Len(engineCalls[c]) = 1
           /\ Len(engineCalls[c][1]) = Len(BytesOf(c)) \div 2

\* the engine call of this step on c raised
EngineRaisedStep(c) ==
  /\ Len(engineCalls'[c]) = Len(engineCalls[c]) + 1
  /\ engineReturns'[c] = engineReturns[c]

\* C6: when the engine call raises, the error leaves on_message uncaught
\* and nothing is sent: client.send is called only for calls that returned
C6_EngineErrorPropagates ==
  /\ [](\A c \in Conns : sendCalls[c] <= engineReturns[c])
  /\ [][\A c \in Conns :
          EngineRaisedStep(c) =>
            /\ raised'[c] = "EngineError"
            /\ pc'[c] = "idle"
            /\ sent'[c] = sent[c]
            /\ sendCalls'[c] = sendCalls[c]
            /\ caught'[c] = caught[c]
            /\ closed'[c] = closed[c]]_vars

\* the engine raised on audio that was not empty and nothing was sent
C6_Witness ==
  \E c \in Conns :
    /\ raised[c] = "EngineError"
    /\ pc[c] = "idle"
    /\ Len(engineCalls[c]) = 1
    /\ engineCalls[c][1] # <<>>
    /\ sent[c] = <<>>
    /\ sendCalls[c] = 0

\* a frame of the given kind is delivered on c in this step
Delivered(c, kind) ==
  /\ Len(frames'[c]) = Len(frames[c]) + 1
  /\ frames'[c][Len(frames'[c])].kind = kind

\* C7: in AWAITING_AUDIO every text frame starts finalization, whatever its
\* content: the buffer is joined and converted and the session is FINALIZING
\* (or the conversion of an odd buffer has raised), nothing is appended
C7_AnyTextFinalizes ==
  [][\A c \in Conns :
       (SessionState(c) = "AWAITING_AUDIO" /\ Delivered(c, "str")) =>
         /\ Len(abuf'[c]) = Len(abuf[c])
         /\ IF Len(Join(abuf[c])) % 2 = 0
            THEN pc'[c] = "engine" /\ audio_np'[c] = Normalize(Join(abuf[c]))
            ELSE raised'[c] = "ValueError"]_vars

\* the empty text frame has put a session with audio into FINALIZING
C7_Witness ==
  \E c \in Conns :
    /\ LastIsText(c)
    /\ frames[c][Len(frames[c])].val = ""
    /\ TextCount(c) = 1
    /\ abuf[c] # <<>>
    /\ SessionState(c) = "FINALIZING"
    /\ pc[c] = "engine"

\* C8: a binary frame in AWAITING_AUDIO is appended at the end of the
\* session's accumulator, of any length, and nothing else changes
C8_BinaryAppends ==
  [][\A c \in Conns :
       (SessionState(c) = "AWAITING_AUDIO" /\ Delivered(c, "bytes")) =>
         /\ abuf'[c] = Append(abuf[c], frames'[c][Len(frames'[c])].val)
         /\ \A d \in Conns \ {c} : abuf'[d] = abuf[d]
         /\ pc' = pc
         /\ closed' = closed
         /\ engineCalls' = engineCalls
         /\ engineReturns' = engineReturns
         /\ sendCalls' = sendCalls
         /\ sent' = sent
         /\ raised'[c] = "none"]_vars

\* a zero-length chunk is stored between two others, the session waits
C8_Witness ==
  \E c \in Conns :
    /\ Len(abuf[c]) = 3
    /\ abuf[c][1] # <<>>
    /\ abuf[c][2] = <<>>
    /\ abuf[c][3] # <<>>
    /\ SessionState(c) = "AWAITING_AUDIO"
    /\ engineCalls[c] = <<>>
    /\ sent[c] = <<>>

\* C9 as stated: once the text frame is handled the accumulator is empty and
\* no audio is handed to the engine twice
C9_DrainEmpties ==
  \A c \in Conns :
    /\ LastIsText(c) => abuf[c] = <<>>
    /\ \A i, j \in 1..Len(engineCalls[c]) :
         (i # j /\ engineCalls[c][i] # <<>>) => engineCalls[c][i] # engineCalls[c][j]

\* C9 amended: joining reads the accumulator and leaves it as it is, so it
\* holds every chunk delivered on the connection, in arrival order, before
\* and after a text frame, and every finalization gets all of them
C9_DrainKeeps ==
  \A c \in Conns :
    /\ connected[c] => abuf[c] = ValsOf(frames[c])
    /\ pc[c] = "engine" => audio_np[c] = Normalize(Join(abuf[c]))

\* two text frames after one chunk: the same audio went to the engine twice
C9_Witness ==
  \E c \in Conns :
    /\ LastIsText(c)
    /\ TextCount(c) = 2
    /\ abuf[c] # <<>>
    /\ Len(engineCalls[c]) = 2
    /\ engineCalls[c][1] # <<>>
    /\ engineCalls[c][1] = engineCalls[c][2]

\* finalizations of c that ended with an error of the engine or of send
Faults(c) ==
  (Len(engineCalls[c]) - engineReturns[c])
    + Cardinality({ i \in DOMAIN caught[c] : caught[c][i] = "send" })

\* C10: the response is sent only after the engine call has returned, the
\* connection is closed only after the response was sent, and a finalization
\* in which neither the engine nor send raises ends with the session CLOSED
C10_FinalizeOrder ==
  /\ [](\A c \in Conns :
          /\ sendCalls[c] <= engineReturns[c]
          /\ Len(sent[c]) <= sendCalls[c]
          /\ pc[c] = "send" => engineReturns[c] > sendCalls[c]
          /\ pc[c] = "close" => Len(sent[c]) >= 1
          /\ closed[c] => Len(sent[c]) >= 1)
  /\ \A c \in Conns : \A k \in 0..MaxLiveFrames :
       (pc[c] = "engine" /\ Faults(c) = k) ~> (closed[c] \/ Faults(c) > k)

\* a session with audio went through engine, send and close
C10_Witness ==
  \E c \in Conns :
    /\ LastIsText(c)
    /\ BytesOf(c) # <<>>
    /\ engineReturns[c] = 1
    /\ Len(sent[c]) = 1
    /\ Faults(c) = 0
    /\ closed[c]
    /\ pc[c] = "idle"

\* C11: a client that sends its whole audio as one binary frame and then
\* sends nothing more eventually receives a response
C11_BinaryOnlyAnswered ==
  \A c \in Conns :
    (Len(frames[c]) = 1 /\ frames[c][1].kind = "bytes" /\ frames[c][1].val # <<>>)
      ~> (sent[c] # <<>> \/ Len(frames[c]) > 1)

RECURSIVE BackslashesBefore(_, _)
\* the number of consecutive backslashes that end just before index i
BackslashesBefore(s, i) ==
  IF i > 1 /\ s[i - 1] = "\\" THEN 1 + BackslashesBefore(s, i - 1) ELSE 0

\* s[i] is a double quote that a JSON string literal does not read as escaped
UnescapedQuoteAt(s, i) == s[i] = "\"" /\ BackslashesBefore(s, i) % 2 = 0

\* s has a "[" and a later "]" on the same line
HasBracketRun(s) ==
  \E i, j \in 1..Len(s) :
    /\ i < j
    /\ s[i] = "["
    /\ s[j] = "]"
    /\ \A k \in i..j : s[k] # "\n"

\* C12: whatever the segments and the corrections, the sanitized transcript
\* has no unescaped double quote and no bracket-delimited run
C12_SanitizedSafe ==
  san_step = "done" =>
    /\ \A i \in 1..Len(cur_m) : ~UnescapedQuoteAt(cur_m, i)
    /\ ~HasBracketRun(cur_m)

\* the transcript "[noise] hello [music] world" as one segment
NoiseMusic ==
  << <<"[", "n", "o", "i", "s", "e", "]", " ", "h", "e", "l", "l", "o", " ",
       "[", "m", "u", "s", "i", "c", "]", " ", "w", "o", "r", "l", "d">> >>

\* C13 as stated: the greedy removal is followed by a trim, so that
\* "[noise] hello [music] world" becomes "world"
C13_GreedyTrimmed ==
  (san_step = "done" /\ in_rr = NoiseMusic /\ in_rules = <<>>) =>
    cur_m = <<"w", "o", "r", "l", "d">>

\* the indices of a character in a text
IndicesOf(s, ch) == { i \in 1..Len(s) : s[i] = ch }

\* the least and the greatest element of a non-empty set of numbers
MinOf(S) == CHOOSE x \in S : \A y \in S : x <= y
MaxOf(S) == CHOOSE x \in S : \A y \in S : y <= x

\* C13 amended: on a single-line transcript with a "]" after its first "["
\* the bracket step removes the one span from the first "[" to the last "]"
\* and trims nothing (the trim runs before it), so that
\* "[noise] hello [music] world" becomes " world", with its leading blank
C13_GreedyUntrimmed ==
  /\ (san_step = "quotes" /\ in_rr # <<>>) =>
       LET before == Strip(JoinSpace(in_rr))
           open == IndicesOf(before, "[")
           close == IndicesOf(before, "]")
       IN (open # {} /\ close # {} /\ MinOf(open) < MaxOf(close)) =>
            cur_m = SubSeq(before, 1, MinOf(open) - 1)
                      \o SubSeq(before, MaxOf(close) + 1, Len(before))
  /\ (san_step = "done" /\ in_rr = NoiseMusic /\ in_rules = <<>>) =>
       cur_m = <<" ", "w", "o", "r", "l", "d">>

\* the steps have run on "[noise] hello [music] world"
C13_Witness ==
  /\ san_step = "done"
  /\ in_rr = NoiseMusic
  /\ in_rules = <<>>
  /\ cur_m # <<>>

RECURSIVE OffsetOf(_, _)
\* where segment k starts in the space-joined text, counted from 0
OffsetOf(texts, k) ==
  IF k = 1 THEN 0 ELSE OffsetOf(texts, k - 1) + Len(texts[k - 1]) + 1

\* the segment texts in emission order with one blank between neighbours
SpaceJoined(texts) ==
  IF texts = <<>> THEN <<>>
  ELSE [i \in 1..(OffsetOf(texts, Len(texts)) + Len(texts[Len(texts)])) |->
          IF \E k \in 1..Len(texts) :
               i > OffsetOf(texts, k) /\ i <= OffsetOf(texts, k) + Len(texts[k])
          THEN LET k == CHOOSE k \in 1..Len(texts) :
                          i > OffsetOf(texts, k) /\ i <= OffsetOf(texts, k) + Len(texts[k])
               IN texts[k][i - OffsetOf(texts, k)]
          ELSE " "]

\* t is s without its leading and trailing whitespace
IsTrimOf(t, s) ==
  /\ t # <<>> => (~IsSpace(t[1]) /\ ~IsSpace(t[Len(t)]))
  /\ \E a, b \in 0..Len(s) :
       /\ a + b <= Len(s)
       /\ t = SubSeq(s, a + 1, Len(s) - b)
       /\ \A i \in 1..a : IsSpace(s[i])
       /\ \A i \in (Len(s) - b + 1)..Len(s) : IsSpace(s[i])

\* no segment text has a bracket or a double quote
PlainSegments(texts) ==
  \A k \in 1..Len(texts) : \A i \in 1..Len(texts[k]) :
    texts[k][i] \notin {"[", "]", "\""}

\* C14: segments without brackets and double quotes come out joined with
\* single blanks in emission order and trimmed, changed by nothing but the
\* configured corrections
C14_PlainUnchanged ==
  PlainSegments(in_rr) =>
    /\ san_step = "corrections" => IsTrimOf(cur_m, SpaceJoined(in_rr))
    /\ (san_step = "done" /\ in_rules = <<>>) => IsTrimOf(cur_m, SpaceJoined(in_rr))
    /\ san_step = "done" =>
         \E a, b \in 0..Len(SpaceJoined(in_rr)) :
           LET t == SubSeq(SpaceJoined(in_rr), a + 1, Len(SpaceJoined(in_rr)) - b)
           IN IsTrimOf(t, SpaceJoined(in_rr)) /\ cur_m = ApplyCorrections(in_rules, t)

\* two plain segments with blanks at both ends went through all the steps
C14_Witness ==
  /\ san_step = "done"
  /\ in_rules = <<>>
  /\ in_rr = << <<" ", "a">>, <<"b", " ">> >>
  /\ cur_m = <<"a", " ", "b">>

RECURSIVE RulesUpTo(_, _, _)
\* the text after the first k rules of a list, each over the whole text
\* the rule before it produced
RulesUpTo(rules, k, s) ==
  IF k = 0 THEN s
  ELSE ReSub(rules[k][1], rules[k][2], RulesUpTo(rules, k - 1, s))

\* C15: the corrections are applied in list order, each over the whole text
\* the previous one produced, after the quotes were escaped; the rule
\* ("Conner", "Conor") turns "I saw Conner today" into "I saw Conor today"
C15_RulesInOrder ==
  san_step = "done" =>
    /\ cur_m = RulesUpTo(in_rules, Len(in_rules),
                         EscapeQuotes(SubBrackets(Strip(JoinSpace(in_rr)))))
    /\ (in_rr = << <<"I", " ", "s", "a", "w", " ", "C", "o", "n", "n", "e", "r", " ", "t", "o", "d", "a", "y">> >> /\ in_rules = << <<<<"C", "o", "n", "n", "e", "r">>, <<"C", "o", "n", "o", "r">>>> >>)
         => cur_m = <<"I", " ", "s", "a", "w", " ", "C", "o", "n", "o", "r", " ", "t", "o", "d", "a", "y">>
    /\ (in_rr = << <<" ", "a">> >> /\ in_rules = << <<<<"a">>, <<"b">>>>, <<<<"b">>, <<"c">>>> >>)
         => cur_m = <<"c">>
    /\ (in_rr = << <<" ", "a">> >> /\ in_rules = << <<<<"b">>, <<"c">>>>, <<<<"a">>, <<"b">>>> >>)
         => cur_m = <<"b">>
    /\ (in_rr = << <<"s", "a", "y", " ", "\"", "h", "i", "\"">> >> /\ in_rules = << <<<<"\\", "\"">>, <<"'">>>> >>)
         => cur_m = <<"s", "a", "y", " ", "'", "h", "i", "'">>

\* the second rule has rewritten what the first one produced
C15_Witness ==
  /\ san_step = "done"
  /\ in_rr = << <<" ", "a">> >>
  /\ in_rules = << <<<<"a">>, <<"b">>>>, <<<<"b">>, <<"c">>>> >>
  /\ cur_m = <<"c">>

\* the two's-complement value of the 16 bits lo + 256 * hi
Signed16(lo, hi) == ((lo + 256 * hi + 32768) % 65536) - 32768

\* C16: an even number of bytes gives len/2 samples, sample i being the
\* little-endian signed 16-bit value of its two bytes over 32768, so that
\* every sample is in [-1, 1); 00 00 ff 7f gives 0 and 32767/32768
C16_NormalizeExact ==
  (out_np.done /\ Len(in_raw) % 2 = 0) =>
    /\ out_np.raised = "none"
    /\ Len(out_np.signal) * 2 = Len(in_raw)
    /\ \A i \in 1..Len(out_np.signal) :
         /\ out_np.signal[i].den = 32768
         /\ out_np.signal[i].num = Signed16(in_raw[2 * i - 1], in_raw[2 * i])
         /\ -out_np.signal[i].den <= out_np.signal[i].num
         /\ out_np.signal[i].num < out_np.signal[i].den
    /\ in_raw = <<0, 0, 255, 127>> =>
         out_np.signal = << [num |-> 0, den |-> 32768], [num |-> 32767, den |-> 32768] >>

\* a negative and the largest sample have been converted
C16_Witness ==
  /\ out_np.done
  /\ in_raw = <<0, 128, 255, 127>>
  /\ out_np.signal[1].num = -32768
  /\ out_np.signal[2].num = 32767

\* where the string literal that opens at the end of MsgPrefix closes: the
\* first double quote a JSON reader does not take as escaped, 0 if none
LiteralEnd(x) ==
  LET q == { i \in 2..Len(x) : UnescapedQuoteAt(x, i) }
  IN IF q = {} THEN 0 ELSE MinOf(q)

\* x reads as the fixed record around one transcript literal t
HasShape(x, t) ==
  /\ Len(x) >= Len(MsgPrefix) + Len(MsgSuffix)
  /\ SubSeq(x, 1, Len(MsgPrefix)) = MsgPrefix
  /\ LiteralEnd(x) = Len(MsgPrefix) + Len(t) + 1
  /\ SubSeq(x, Len(MsgPrefix) + 1, LiteralEnd(x) - 1) = t
  /\ SubSeq(x, LiteralEnd(x), Len(x)) = MsgSuffix

\* C17: every response sent reads as status 0, segment 0, one hypothesis
\* whose transcript is the sanitized text of an engine result, final true
\* and the one id of the session
C17_ResponseShape ==
  \A c \in Conns : \A i \in 1..Len(sent[c]) :
    \E rr \in EngineResults : HasShape(sent[c][i], Sanitize(rr))

\* what a late binary frame leaves alone in any case
LateBinaryRest ==
  /\ engineCalls' = engineCalls
  /\ engineReturns' = engineReturns
  /\ sendCalls' = sendCalls
  /\ sent' = sent
  /\ pc' = pc
  /\ closed' = closed

\* C18 as stated: a binary frame delivered during FINALIZING or after CLOSED
\* leaves the accumulator as it was, calls no engine, sends nothing and
\* raises nothing
C18_LateBinaryIgnored ==
  [][\A c \in Conns :
       (SessionState(c) # "AWAITING_AUDIO" /\ Delivered(c, "bytes")) =>
         /\ abuf'[c] = abuf[c]
         /\ raised'[c] = "none"
         /\ LateBinaryRest]_vars

\* C18 amended: a binary frame delivered after CLOSED is appended to the
\* accumulator like any other; it calls no engine, sends nothing, raises
\* nothing and leaves the audio already handed to the engine as it was
C18_LateBinaryAppended ==
  [][\A c \in Conns :
       (SessionState(c) # "AWAITING_AUDIO" /\ Delivered(c, "bytes")) =>
         /\ abuf'[c] = Append(abuf[c], frames'[c][Len(frames'[c])].val)
         /\ raised'[c] = "none"
         /\ LateBinaryRest]_vars

\* a chunk arrived after the response was sent and the connection closed
C18_Witness ==
  \E c \in Conns :
    /\ closed[c]
    /\ Len(frames[c]) = 2
    /\ frames[c][1].kind = "str"
    /\ frames[c][2].kind = "bytes"
    /\ abuf[c] = << frames[c][2].val >>
    /\ abuf[c][1] # <<>>
    /\ Len(engineCalls[c]) = 1
    /\ engineCalls[c][1] = <<>>
    /\ Len(sent[c]) = 1

\* this step belongs to the finalization of c: its text frame is delivered
\* or its handler moves on
FinalizeStep(c) == Delivered(c, "str") \/ pc'[c] # pc[c]

\* C19: a finalization sends its response on, and closes, the connection that
\* delivered the text frame, and leaves the accumulator, the responses and
\* the open/closed state of every other connection as they were
C19_FinalizeLocal ==
  [][\A c \in Conns :
       /\ FinalizeStep(c) =>
            \A d \in Conns \ {c} :
              /\ abuf'[d] = abuf[d]
              /\ closed'[d] = closed[d]
              /\ sent'[d] = sent[d]
              /\ engineCalls'[d] = engineCalls[d]
       /\ sent'[c] # sent[c] => (pc[c] = "send" /\ TextCount(c) >= 1)
       /\ closed'[c] # closed[c] =>
            (pc[c] = "close" /\ TextCount(c) >= 1 /\ sent[c] # <<>>)]_vars

\* one session is answered and closed, the other still open with its audio
C19_Witness ==
  \E c, d \in Conns :
    /\ c # d
    /\ closed[c]
    /\ Len(sent[c]) = 1
    /\ connected[d]
    /\ ~closed[d]
    /\ abuf[d] # <<>>
    /\ abuf[d][1] # <<>>
    /\ sent[d] = <<>>

====
